---- MODULE Spec2Model ----
(***************************************************************************)
(* Factory synthesis of static-injector (render3/r3_factory.ts).           *)
(*                                                                         *)
(* compileFactoryFunction turns an R3FactoryMetadata into an output-AST    *)
(* expression (the factory) and a declared type.  The model keeps the      *)
(* output AST as records (field k names the node class), translates the    *)
(* synthesis line by line, and then runs the generated factory: the        *)
(* emitted function is evaluated with JavaScript's rules, with the base    *)
(* factory memo as the one mutable cell that outlives an invocation.       *)
(* Two further state machines follow repeated calls of                     *)
(* compileFactoryFunction (SpecCalls) and Decorator.nodeForError of        *)
(* reflection/src/host.ts (SpecDecorator).                                 *)
(***************************************************************************)
EXTENDS Integers, Sequences, FiniteSets, TLC

VARIABLES
    meta,          \* the R3FactoryMetadata handed to compileFactoryFunction
    pc,            \* "init" | "compiled" | "failed" | "loaded"
    result,        \* the R3CompiledExpression returned (NoResult before)
    memo,          \* the closure's base factory variable, a runtime value
    inherited,     \* number of runtime getInheritedFactory calls so far
    invocations,   \* number of invocations of the generated factory so far
    lastT,         \* the argument t of the last invocation
    lastRet,       \* outcome of the last invocation: [val, thrown]
    calls,         \* number of calls of compileFactoryFunction entered
    callPc,        \* position in the current call ("idle" between calls)
    callMeta,      \* the metadata object passed to the current call
    frame,         \* the locals baseFactoryVar, ctorExpr, body and retExpr
    log,           \* the calls returned so far: [meta, out], oldest first
    decorator,     \* the Decorator handed to Decorator.nodeForError
    decPc,         \* "init" | "done": whether nodeForError has returned
    errorNode      \* what nodeForError returned (NoResult before)

callVars == <<calls, callPc, callMeta, frame, log>>

decVars == <<decorator, decPc, errorNode>>

vars == <<meta, pc, result, memo, inherited, invocations, lastT, lastRet,
          calls, callPc, callMeta, frame, log, decorator, decPc, errorNode>>

----------------------------------------------------------------------------
(* Bounds of the model.                                                    *)

MaxDeps == 2
MaxDelegateDeps == 1
MaxInvocations == 2
MaxCalls == 3

----------------------------------------------------------------------------
(* InjectFlags (imported from ../core): the bits the synthesizer ORs.      *)

InjectFlags_Default == 0
InjectFlags_Host == 1
InjectFlags_Self == 2
InjectFlags_SkipSelf == 4
InjectFlags_Optional == 8

\* JavaScript's | on non-negative integers.
RECURSIVE BitOr(_, _)
BitOr(a, b) ==
    IF a = 0 THEN b
    ELSE IF b = 0 THEN a
    ELSE (IF (a % 2 = 1) \/ (b % 2 = 1) THEN 1 ELSE 0)
         + 2 * BitOr(a \div 2, b \div 2)

\* JavaScript's & on non-negative integers.
RECURSIVE BitAnd(_, _)
BitAnd(a, b) ==
    IF a = 0 \/ b = 0 THEN 0
    ELSE (IF (a % 2 = 1) /\ (b % 2 = 1) THEN 1 ELSE 0)
         + 2 * BitAnd(a \div 2, b \div 2)

----------------------------------------------------------------------------
(* Output AST: the node classes of ../output/output_ast that the           *)
(* synthesizer constructs.                                                 *)

variable(name) == [k |-> "ReadVar", name |-> name]
set(v, value) == [k |-> "WriteVar", name |-> v.name, value |-> value]
literal(n) == [k |-> "Lit", value |-> n]
NULL_EXPR == [k |-> "Null"]
UNDEFINED == [k |-> "Undefined"]
importExpr(ref) == [k |-> "Import", ref |-> ref]
WrappedNodeExpr(name) == [k |-> "Wrapped", name |-> name]
BinaryOperatorExpr(op, lhs, rhs) == [k |-> op, lhs |-> lhs, rhs |-> rhs]
InstantiateExpr(classExpr, args) == [k |-> "New", fn |-> classExpr, args |-> args]
InvokeFunctionExpr(f, args) ==
    [k |-> "Call", fn |-> f, args |-> args, pure |-> FALSE]
callFn(f, args) == InvokeFunctionExpr(f, args)
callFnPure(f, args) == [k |-> "Call", fn |-> f, args |-> args, pure |-> TRUE]
toStmt(e) == [k |-> "ExprStmt", expr |-> e]
toDeclStmt(w) == [k |-> "DeclVar", name |-> w.name, hasValue |-> TRUE,
                  value |-> w.value]
DeclareVarStmt(name) == [k |-> "DeclVar", name |-> name, hasValue |-> FALSE,
                         value |-> UNDEFINED]
ifStmt(cond, thenCase, elseCase) ==
    [k |-> "If", cond |-> cond, thenCase |-> thenCase, elseCase |-> elseCase]
ReturnStatement(e) == [k |-> "Return", expr |-> e]
fn(params, body, name) ==
    [k |-> "Fn", params |-> params, body |-> body, name |-> name]

\* R3 identifiers (../render3/r3_identifiers) referenced by the synthesizer.
R3_invalidFactory == "invalidFactory"
R3_invalidFactoryDep == "invalidFactoryDep"
R3_getInheritedFactory == "getInheritedFactory"
R3_inject == "inject"
R3_directiveInject == "directiveInject"
R3_FactoryDeclaration == "FactoryDeclaration"

----------------------------------------------------------------------------
(* Metadata.                                                               *)

FactoryTarget == {"Directive", "Component", "Injectable", "Pipe", "NgModule"}
R3FactoryDelegateType == {"Class", "Function"}

\* deps: R3DependencyMetadata[] | 'invalid' | null (undefined when the field
\* is absent, as delegateDeps is on a metadata that is not Delegated).
DepsList(l) == [tag |-> "list", list |-> l]
DepsInvalid == [tag |-> "invalid", list |-> <<>>]
DepsNull == [tag |-> "null", list |-> <<>>]
DepsUndefined == [tag |-> "undefined", list |-> <<>>]

\* A nullable reference holding null (outputAst.Expression | null).
JSNull == [k |-> "JSNull"]

Tokens == {WrappedNodeExpr("T1"), JSNull}
AttributeNameTypes == {WrappedNodeExpr("A"), JSNull}

\* Every R3DependencyMetadata over the model's tokens.
R3DependencyMetadata ==
    [token : Tokens, attributeNameType : AttributeNameTypes,
     optional : BOOLEAN, self : BOOLEAN, skipSelf : BOOLEAN]

Dep(token, attr, optional, self, skipSelf) ==
    [token |-> token, attributeNameType |-> attr, optional |-> optional,
     self |-> self, skipSelf |-> skipSelf]

PlainDep == Dep(WrappedNodeExpr("T1"), JSNull, FALSE, FALSE, FALSE)

----------------------------------------------------------------------------
(* The synthesizer.                                                        *)

isDelegatedFactoryMetadata(m) == m.delegateType # "undefined"

isExpressionFactoryMetadata(m) == m.expression # UNDEFINED

getInjectFn(target) ==
    CASE target \in {"Component", "Directive", "Pipe"} -> R3_directiveInject
      [] target \in {"NgModule", "Injectable"} -> R3_inject
      [] OTHER -> R3_inject

\* The flags with the Self and SkipSelf bits exchanged.
injectFlagsOf_SelfSkipSelfSwapped(dep) ==
    BitOr(BitOr(BitOr(InjectFlags_Default,
                      IF dep.self THEN InjectFlags_SkipSelf ELSE 0),
                IF dep.skipSelf THEN InjectFlags_Self ELSE 0),
          IF dep.optional THEN InjectFlags_Optional ELSE 0)

\* The flags of lines 269-273.
injectFlagsOf(dep) ==
    BitOr(BitOr(BitOr(InjectFlags_Default,
                      IF dep.self THEN InjectFlags_Self ELSE 0),
                IF dep.skipSelf THEN InjectFlags_SkipSelf ELSE 0),
          IF dep.optional THEN InjectFlags_Optional ELSE 0)

\* Falls off its end, returning undefined, when the dependency has a token
\* and an attributeNameType.
compileInjectDependency(dep, target, index) ==
    IF dep.token = JSNull
    THEN callFn(importExpr(R3_invalidFactoryDep), <<literal(index)>>)
    ELSE IF dep.attributeNameType = JSNull
    THEN LET flags == injectFlagsOf(dep)
             hasFlagsParam == flags # InjectFlags_Default \/ dep.optional
             injectArgs == IF hasFlagsParam
                           THEN <<dep.token, literal(flags)>>
                           ELSE <<dep.token>>
         IN  callFn(importExpr(getInjectFn(target)), injectArgs)
    ELSE UNDEFINED

\* injectDependencies that numbers the dependencies from 1.
injectDependencies_CountFromOne(deps, target) ==
    IF deps.tag = "list"
    THEN [thrown |-> FALSE,
          args |-> [i \in 1..Len(deps.list) |->
                      compileInjectDependency(deps.list[i], target, i)]]
    ELSE [thrown |-> TRUE, args |-> <<>>]

\* deps.map(...): a TypeError when deps is not an array.  Indices are the
\* array's, from 0.
injectDependencies(deps, target) ==
    IF deps.tag = "list"
    THEN [thrown |-> FALSE,
          args |-> [i \in 1..Len(deps.list) |->
                      compileInjectDependency(deps.list[i], target, i - 1)]]
    ELSE [thrown |-> TRUE, args |-> <<>>]

\* outputAst.literal(true) and outputAst.literal(null), as they stand in a
\* type.
LITERAL_TRUE == [k |-> "LiteralBool", b |-> TRUE]

LITERAL_NULL == [k |-> "LiteralNull"]

\* The entries of the literal map, in the order pushed.
createCtorDepType(dep) ==
    LET entry(key) == [key |-> key, value |-> LITERAL_TRUE, quoted |-> FALSE]
        entries ==
            (IF dep.optional THEN <<entry("optional")>> ELSE <<>>)
            \o (IF dep.self THEN <<entry("self")>> ELSE <<>>)
            \o (IF dep.skipSelf THEN <<entry("skipSelf")>> ELSE <<>>)
    IN  IF Len(entries) > 0
        THEN [k |-> "LiteralMap", entries |-> entries]
        ELSE JSNull

NONE_TYPE == [k |-> "NoneType"]

\* createCtorDepsType leaving the unqualified dependencies out of the array.
createCtorDepsType_DropsUnqualified(deps) ==
    LET types == [i \in 1..Len(deps) |-> createCtorDepType(deps[i])]
        hasTypes == \E i \in 1..Len(deps) : types[i] # JSNull
    IN  IF hasTypes
        THEN [k |-> "ExpressionType",
              value |-> [k |-> "LiteralArr",
                         entries |-> SelectSeq(types, LAMBDA x : x # JSNull)]]
        ELSE NONE_TYPE

createCtorDepsType(deps) ==
    LET types == [i \in 1..Len(deps) |-> createCtorDepType(deps[i])]
        hasTypes == \E i \in 1..Len(deps) : types[i] # JSNull
        attributeTypes == [i \in 1..Len(deps) |->
                              IF types[i] # JSNull THEN types[i]
                              ELSE LITERAL_NULL]
    IN  IF hasTypes
        THEN [k |-> "ExpressionType",
              value |-> [k |-> "LiteralArr", entries |-> attributeTypes]]
        ELSE NONE_TYPE

typeWithParameters(type, numParams) ==
    [k |-> "TypeWithParameters", type |-> type, numParams |-> numParams]

createFactoryType(m) ==
    LET ctorDepsType ==
            IF m.deps.tag # "null" /\ m.deps.tag # "invalid"
            THEN IF m.deps.tag = "list"
                 THEN createCtorDepsType(m.deps.list)
                 ELSE [k |-> "TypeError"]
            ELSE NONE_TYPE
    IN  [k |-> "ExpressionType",
         value |-> [k |-> "Import", ref |-> R3_FactoryDeclaration,
                    typeParams |-> <<typeWithParameters(m.type,
                                                        m.typeArgumentCount),
                                     ctorDepsType>>]]

BaseFactoryName(name) == CASE name = "MyClass" -> "MyClass_BaseFactory"

FactoryName(name) == CASE name = "MyClass" -> "MyClass_Factory"

\* typeForCtor without the delegated test: always t || internalType.
typeForCtorOf_AlwaysDefaulted(m) ==
    BinaryOperatorExpr("Or", variable("t"), m.internalType)

\* Lines 131-137.
typeForCtorOf(m) ==
    IF ~isDelegatedFactoryMetadata(m)
    THEN BinaryOperatorExpr("Or", variable("t"), m.internalType)
    ELSE variable("t")

\* constructorStep without the 'invalid' test of line 142: every non-null
\* deps is mapped over.
constructorStep_NoInvalidTest(m) ==
    IF m.deps.tag # "null"
    THEN LET inj == injectDependencies(m.deps, m.target)
         IN  [thrown |-> inj.thrown,
              ctorExpr |-> InstantiateExpr(typeForCtorOf(m), inj.args),
              baseFactoryVar |-> JSNull]
    ELSE LET baseFactoryVar == variable(BaseFactoryName(m.name))
         IN  [thrown |-> FALSE,
              ctorExpr |-> callFn(baseFactoryVar, <<typeForCtorOf(m)>>),
              baseFactoryVar |-> baseFactoryVar]

\* constructorStep that takes 'invalid' deps for a missing constructor and
\* falls back to the base factory.
constructorStep_InvalidInherits(m) ==
    IF m.deps.tag = "list"
    THEN LET inj == injectDependencies(m.deps, m.target)
         IN  [thrown |-> inj.thrown,
              ctorExpr |-> InstantiateExpr(typeForCtorOf(m), inj.args),
              baseFactoryVar |-> JSNull]
    ELSE LET baseFactoryVar == variable(BaseFactoryName(m.name))
         IN  [thrown |-> FALSE,
              ctorExpr |-> callFn(baseFactoryVar, <<typeForCtorOf(m)>>),
              baseFactoryVar |-> baseFactoryVar]

\* constructorStep that takes an empty dependency list for a missing
\* constructor (a truthiness test on deps.length).
constructorStep_EmptyInherits(m) ==
    IF m.deps.tag = "list" /\ Len(m.deps.list) > 0
    THEN LET inj == injectDependencies(m.deps, m.target)
         IN  [thrown |-> inj.thrown,
              ctorExpr |-> InstantiateExpr(typeForCtorOf(m), inj.args),
              baseFactoryVar |-> JSNull]
    ELSE IF m.deps.tag = "invalid"
    THEN [thrown |-> FALSE, ctorExpr |-> JSNull, baseFactoryVar |-> JSNull]
    ELSE LET baseFactoryVar == variable(BaseFactoryName(m.name))
         IN  [thrown |-> FALSE,
              ctorExpr |-> callFn(baseFactoryVar, <<typeForCtorOf(m)>>),
              baseFactoryVar |-> baseFactoryVar]

\* Lines 139-152: ctorExpr and baseFactoryVar.
constructorStep(m) ==
    IF m.deps.tag # "null"
    THEN IF m.deps.tag # "invalid"
         THEN LET inj == injectDependencies(m.deps, m.target)
              IN  [thrown |-> inj.thrown,
                   ctorExpr |-> InstantiateExpr(typeForCtorOf(m), inj.args),
                   baseFactoryVar |-> JSNull]
         ELSE [thrown |-> FALSE, ctorExpr |-> JSNull,
               baseFactoryVar |-> JSNull]
    ELSE LET baseFactoryVar == variable(BaseFactoryName(m.name))
         IN  [thrown |-> FALSE,
              ctorExpr |-> callFn(baseFactoryVar, <<typeForCtorOf(m)>>),
              baseFactoryVar |-> baseFactoryVar]

\* makeConditionalFactory that leaves the override branch empty when there
\* is no constructor expression.
makeConditionalFactory_NoStub(ctorExpr, nonCtorExpr) ==
    LET r == variable("r")
    IN  <<toDeclStmt(set(r, NULL_EXPR)),
          ifStmt(variable("t"),
                 IF ctorExpr # JSNull THEN <<toStmt(set(r, ctorExpr))>>
                 ELSE <<>>,
                 <<toStmt(set(r, nonCtorExpr))>>)>>

\* Lines 157-168: the statements pushed on body; the value returned is r.
makeConditionalFactory(ctorExpr, nonCtorExpr) ==
    LET r == variable("r")
        ctorStmt == IF ctorExpr # JSNull
                    THEN toStmt(set(r, ctorExpr))
                    ELSE toStmt(callFn(importExpr(R3_invalidFactory), <<>>))
    IN  <<toDeclStmt(set(r, NULL_EXPR)),
          ifStmt(variable("t"), <<ctorStmt>>,
                 <<toStmt(set(r, nonCtorExpr))>>)>>

\* variantStep numbering the delegate's dependencies after the constructor's.
variantStep_SharedIndex(m, ctorExpr) ==
    IF isDelegatedFactoryMetadata(m)
    THEN LET offset == Len(m.deps.list)
             args == [i \in 1..Len(m.delegateDeps.list) |->
                         compileInjectDependency(m.delegateDeps.list[i],
                                                 m.target, offset + i - 1)]
             factoryExpr == IF m.delegateType = "Class"
                            THEN InstantiateExpr(m.delegate, args)
                            ELSE InvokeFunctionExpr(m.delegate, args)
         IN  [thrown |-> FALSE,
              body |-> makeConditionalFactory(ctorExpr, factoryExpr),
              retExpr |-> variable("r")]
    ELSE IF isExpressionFactoryMetadata(m)
    THEN [thrown |-> FALSE,
          body |-> makeConditionalFactory(ctorExpr, m.expression),
          retExpr |-> variable("r")]
    ELSE [thrown |-> FALSE, body |-> <<>>, retExpr |-> ctorExpr]

\* variantStep testing for an expression before testing for a delegate.
variantStep_ExpressionFirst(m, ctorExpr) ==
    IF isExpressionFactoryMetadata(m)
    THEN [thrown |-> FALSE,
          body |-> makeConditionalFactory(ctorExpr, m.expression),
          retExpr |-> variable("r")]
    ELSE IF isDelegatedFactoryMetadata(m)
    THEN LET inj == injectDependencies(m.delegateDeps, m.target)
             factoryExpr == IF m.delegateType = "Class"
                            THEN InstantiateExpr(m.delegate, inj.args)
                            ELSE InvokeFunctionExpr(m.delegate, inj.args)
         IN  [thrown |-> inj.thrown,
              body |-> makeConditionalFactory(ctorExpr, factoryExpr),
              retExpr |-> variable("r")]
    ELSE [thrown |-> FALSE, body |-> <<>>, retExpr |-> ctorExpr]

\* Lines 170-186: body so far and retExpr.
variantStep(m, ctorExpr) ==
    IF isDelegatedFactoryMetadata(m)
    THEN LET inj == injectDependencies(m.delegateDeps, m.target)
             factoryExpr == IF m.delegateType = "Class"
                            THEN InstantiateExpr(m.delegate, inj.args)
                            ELSE InvokeFunctionExpr(m.delegate, inj.args)
         IN  [thrown |-> inj.thrown,
              body |-> makeConditionalFactory(ctorExpr, factoryExpr),
              retExpr |-> variable("r")]
    ELSE IF isExpressionFactoryMetadata(m)
    THEN [thrown |-> FALSE,
          body |-> makeConditionalFactory(ctorExpr, m.expression),
          retExpr |-> variable("r")]
    ELSE [thrown |-> FALSE, body |-> <<>>, retExpr |-> ctorExpr]

\* returnStep that resolves the base factory without storing it:
\* (baseFactory || getInheritedFactory(...))(typeForCtor).
returnStep_NoMemoWrite(m, retExpr, baseFactoryVar) ==
    IF retExpr = JSNull
    THEN toStmt(callFn(importExpr(R3_invalidFactory), <<>>))
    ELSE IF baseFactoryVar # JSNull
    THEN LET getInheritedFactoryCall ==
                 callFn(importExpr(R3_getInheritedFactory), <<m.internalType>>)
             baseFactory ==
                 BinaryOperatorExpr("Or", baseFactoryVar,
                                    getInheritedFactoryCall)
         IN  ReturnStatement(callFn(baseFactory, <<typeForCtorOf(m)>>))
    ELSE ReturnStatement(retExpr)

\* returnStep that, when no expression could be formed, falls back to the
\* base class's factory instead of the invalidFactory stub.
returnStep_NullRetInherits(m, retExpr, baseFactoryVar) ==
    IF retExpr = JSNull \/ baseFactoryVar # JSNull
    THEN LET getInheritedFactoryCall ==
                 callFn(importExpr(R3_getInheritedFactory), <<m.internalType>>)
             baseFactory ==
                 IF baseFactoryVar # JSNull
                 THEN BinaryOperatorExpr("Or", baseFactoryVar,
                                         set(baseFactoryVar,
                                             getInheritedFactoryCall))
                 ELSE getInheritedFactoryCall
         IN  ReturnStatement(callFn(baseFactory, <<typeForCtorOf(m)>>))
    ELSE ReturnStatement(retExpr)

\* Lines 188-206: the last statement of the body.
returnStep(m, retExpr, baseFactoryVar) ==
    IF retExpr = JSNull
    THEN toStmt(callFn(importExpr(R3_invalidFactory), <<>>))
    ELSE IF baseFactoryVar # JSNull
    THEN LET getInheritedFactoryCall ==
                 callFn(importExpr(R3_getInheritedFactory), <<m.internalType>>)
             baseFactory ==
                 BinaryOperatorExpr("Or", baseFactoryVar,
                                    set(baseFactoryVar, getInheritedFactoryCall))
         IN  ReturnStatement(callFn(baseFactory, <<typeForCtorOf(m)>>))
    ELSE ReturnStatement(retExpr)

\* packageStep with the memo declared inside the factory and no closure.
packageStep_MemoInsideFactory(m, body, baseFactoryVar) ==
    IF baseFactoryVar # JSNull
    THEN fn(<<"t">>, <<DeclareVarStmt(baseFactoryVar.name)>> \o body,
            FactoryName(m.name))
    ELSE fn(<<"t">>, body, FactoryName(m.name))

\* Lines 208-228: the factory function, wrapped in an IIFE with the memo.
packageStep(m, body, baseFactoryVar) ==
    LET factoryFn == fn(<<"t">>, body, FactoryName(m.name))
    IN  IF baseFactoryVar # JSNull
        THEN callFnPure(fn(<<>>,
                           <<DeclareVarStmt(baseFactoryVar.name),
                             ReturnStatement(factoryFn)>>,
                           ""),
                        <<>>)
        ELSE factoryFn

\* What a caller sees when compileFactoryFunction raises.
Thrown == [k |-> "Thrown"]

compileFactoryFunction(m) ==
    LET c == constructorStep(m)
        v == variantStep(m, c.ctorExpr)
        body == Append(v.body, returnStep(m, v.retExpr, c.baseFactoryVar))
    IN  IF c.thrown \/ v.thrown
        THEN Thrown
        ELSE [k |-> "R3CompiledExpression",
              expression |-> packageStep(m, body, c.baseFactoryVar),
              statements |-> <<>>,
              type |-> createFactoryType(m)]

----------------------------------------------------------------------------
(* Running the generated factory: JavaScript's evaluation of the emitted   *)
(* nodes.  Values are records [v, name, n, args].                          *)

Val(v, name, n, args) == [v |-> v, name |-> name, n |-> n, args |-> args]
VUndefined == Val("undefined", "", 0, <<>>)
VNull == Val("null", "", 0, <<>>)
VUndeclared == Val("undeclared", "", 0, <<>>)
VNum(n) == Val("num", "", n, <<>>)
\* The value an expression supplied by the metadata (a type, a token, a
\* delegate) denotes at run time: a class or function known by its name.
VRef(name) == Val("ref", name, 0, <<>>)
\* A function of the injection runtime.
VRuntime(ref) == Val("runtime", ref, 0, <<>>)
\* The instance made by new f(args), and the value returned by f(args).
VNew(f, args) == Val("new", "", 0, <<f>> \o args)
VApp(f, args) == Val("app", "", 0, <<f>> \o args)

Truthy(x) == x.v \notin {"undefined", "null"} /\ ~(x.v = "num" /\ x.n = 0)

\* What can be called or instantiated: a class or function of the program,
\* a runtime function, or a function the runtime returned.
Callable(x) == x.v \in {"ref", "runtime", "app"}

VarNames == {"t", "r", BaseFactoryName("MyClass")}

\* Evaluation state: the variables in scope, the count of
\* getInheritedFactory calls, the pending exception (if any), the value of
\* the expression just evaluated, and whether a return was executed.
EvalState(env, inh) ==
    [env |-> env, inherited |-> inh, thrown |-> "", thrownArg |-> 0,
     val |-> VUndefined, returned |-> FALSE]

Throw(st, what, n) == [st EXCEPT !.thrown = what, !.thrownArg = n]

\* f(args) at run time.
Apply(f, args, st) ==
    IF ~Callable(f) THEN Throw(st, "TypeError", 0)
    ELSE IF f = VRuntime(R3_invalidFactory)
    THEN Throw(st, R3_invalidFactory, 0)
    ELSE IF f = VRuntime(R3_invalidFactoryDep)
    THEN Throw(st, R3_invalidFactoryDep,
               IF Len(args) > 0 /\ args[1].v = "num" THEN args[1].n ELSE 0)
    ELSE IF f = VRuntime(R3_getInheritedFactory)
    THEN [st EXCEPT !.val = VApp(f, args), !.inherited = @ + 1]
    ELSE [st EXCEPT !.val = VApp(f, args)]

\* new f(args) at run time.
Construct(f, args, st) ==
    IF ~Callable(f) THEN Throw(st, "TypeError", 0)
    ELSE [st EXCEPT !.val = VNew(f, args)]

RECURSIVE Eval(_, _)
RECURSIVE EvalArgs(_, _)

\* The arguments left to right; an exception ends the evaluation.
EvalArgs(args, st) ==
    IF Len(args) = 0 \/ st.thrown # ""
    THEN [st |-> st, vals |-> <<>>]
    ELSE LET first == Eval(Head(args), st)
             rest == EvalArgs(Tail(args), first)
         IN  [st |-> rest.st, vals |-> <<first.val>> \o rest.vals]

Eval(e, st) ==
    IF st.thrown # "" THEN st
    ELSE CASE e.k = "ReadVar" ->
                IF e.name \notin VarNames \/ st.env[e.name] = VUndeclared
                THEN Throw(st, "ReferenceError", 0)
                ELSE [st EXCEPT !.val = st.env[e.name]]
           [] e.k = "WriteVar" ->
                LET s1 == Eval(e.value, st)
                IN  IF s1.thrown # "" THEN s1
                    ELSE IF e.name \notin VarNames
                            \/ s1.env[e.name] = VUndeclared
                    THEN Throw(s1, "ReferenceError", 0)
                    ELSE [s1 EXCEPT !.env[e.name] = s1.val]
           [] e.k = "Lit" -> [st EXCEPT !.val = VNum(e.value)]
           [] e.k = "Null" -> [st EXCEPT !.val = VNull]
           [] e.k = "Undefined" -> [st EXCEPT !.val = VUndefined]
           [] e.k = "Wrapped" -> [st EXCEPT !.val = VRef(e.name)]
           [] e.k = "Import" -> [st EXCEPT !.val = VRuntime(e.ref)]
           [] e.k = "Or" ->
                LET s1 == Eval(e.lhs, st)
                IN  IF s1.thrown # "" \/ Truthy(s1.val) THEN s1
                    ELSE Eval(e.rhs, s1)
           [] e.k \in {"New", "Call"} ->
                LET s1 == Eval(e.fn, st)
                    a == EvalArgs(e.args, s1)
                IN  IF a.st.thrown # "" THEN a.st
                    ELSE IF e.k = "New"
                    THEN Construct(s1.val, a.vals, a.st)
                    ELSE Apply(s1.val, a.vals, a.st)
           [] OTHER -> Throw(st, "TypeError", 0)

RECURSIVE Exec(_, _)
RECURSIVE ExecAll(_, _)

\* The statements in order, until one returns or throws.
ExecAll(stmts, st) ==
    IF Len(stmts) = 0 \/ st.thrown # "" \/ st.returned THEN st
    ELSE ExecAll(Tail(stmts), Exec(Head(stmts), st))

Exec(s, st) ==
    CASE s.k = "DeclVar" ->
            LET s1 == IF s.hasValue THEN Eval(s.value, st)
                      ELSE [st EXCEPT !.val = VUndefined]
            IN  IF s1.thrown # "" THEN s1
                ELSE [s1 EXCEPT !.env[s.name] = s1.val]
      [] s.k = "If" ->
            LET s1 == Eval(s.cond, st)
            IN  IF s1.thrown # "" THEN s1
                ELSE IF Truthy(s1.val) THEN ExecAll(s.thenCase, s1)
                ELSE ExecAll(s.elseCase, s1)
      [] s.k = "ExprStmt" -> Eval(s.expr, st)
      [] s.k = "Return" ->
            LET s1 == Eval(s.expr, st)
            IN  IF s1.thrown # "" THEN s1 ELSE [s1 EXCEPT !.returned = TRUE]
      [] OTHER -> Throw(st, "TypeError", 0)

\* The expression is either the factory function or the call of a closure
\* that declares variables and returns it.
IsIIFE(e) == e.k = "Call" /\ e.fn.k = "Fn"

FactoryFnOf(e) == IF IsIIFE(e) THEN e.fn.body[Len(e.fn.body)].expr ELSE e

ClosureVarsOf(e) ==
    IF IsIIFE(e)
    THEN {e.fn.body[i].name : i \in {j \in 1..Len(e.fn.body) :
                                        e.fn.body[j].k = "DeclVar"}}
    ELSE {}

\* One invocation factory(t) with the closure's cell holding memoVal.
CallFactory(e, t, memoVal, inh) ==
    LET f == FactoryFnOf(e)
        env == [x \in VarNames |->
                   IF x \in ClosureVarsOf(e) THEN memoVal
                   ELSE IF x = "t" THEN t
                   ELSE VUndeclared]
        out == ExecAll(f.body, EvalState(env, inh))
    IN  [out EXCEPT !.val = IF out.returned THEN out.val ELSE VUndefined]

----------------------------------------------------------------------------
(* The inputs: the metadata values compileFactoryFunction is applied to.   *)

InvalidDep == Dep(JSNull, JSNull, FALSE, FALSE, FALSE)
AttributeDep == Dep(WrappedNodeExpr("T1"), WrappedNodeExpr("A"),
                    FALSE, FALSE, FALSE)

\* The dependencies the longer lists are built from: one per path through
\* compileInjectDependency.
DepSet == {PlainDep, InvalidDep, AttributeDep}

ListsOver(S, n) == UNION {[1..len -> S] : len \in 0..n}

\* Lists in which one position holds any dependency at all (every token,
\* attribute and qualifier combination) and the others the plain one.
ProbeLists(n) ==
    UNION {{[j \in 1..len |-> IF j = i THEN d ELSE PlainDep] :
               i \in 1..len, d \in R3DependencyMetadata} : len \in 1..n}

Meta(deps, target, delegateType, delegateDeps, expression) ==
    [name |-> "MyClass",
     type |-> WrappedNodeExpr("MyClass"),
     internalType |-> WrappedNodeExpr("MyClass_1"),
     typeArgumentCount |-> 0,
     deps |-> deps,
     target |-> target,
     delegate |-> IF delegateType = "undefined" THEN UNDEFINED
                  ELSE WrappedNodeExpr("delegate"),
     delegateType |-> delegateType,
     delegateDeps |-> delegateDeps,
     expression |-> expression]

DepsChoices ==
    {DepsInvalid, DepsNull} \cup {DepsList(l) : l \in ListsOver(DepSet, MaxDeps)}

ExpressionChoices == {UNDEFINED, WrappedNodeExpr("expr")}

\* Constructor and Expression metadata carry no delegateType, delegate or
\* delegateDeps; Delegated metadata carry all three.
MetaSet ==
    {Meta(d, tg, "undefined", DepsUndefined, e) :
        d \in DepsChoices, tg \in FactoryTarget, e \in ExpressionChoices}
    \cup
    {Meta(d, tg, dt, DepsList(dd), e) :
        d \in DepsChoices, tg \in FactoryTarget, dt \in R3FactoryDelegateType,
        dd \in ListsOver(DepSet, MaxDelegateDeps), e \in ExpressionChoices}
    \cup
    {Meta(DepsList(l), tg, "undefined", DepsUndefined, UNDEFINED) :
        l \in ProbeLists(MaxDeps), tg \in FactoryTarget}
    \cup
    {Meta(DepsList(<<>>), tg, dt, DepsList(l), UNDEFINED) :
        l \in ProbeLists(MaxDelegateDeps), tg \in FactoryTarget,
        dt \in R3FactoryDelegateType}

----------------------------------------------------------------------------
(* The state machine: synthesize, load the emitted expression, invoke the  *)
(* factory.                                                                *)

NoResult == [k |-> "NoResult"]

NoOutcome == [val |-> VUndefined, thrown |-> "", thrownArg |-> 0]

\* No Decorator is at hand while the factory synthesis is followed.
NoDecorator == [k |-> "NoDecorator"]

\* The locals of compileFactoryFunction before any call has run.
NoFrame ==
    [baseFactoryVar |-> JSNull, ctorExpr |-> JSNull, body |-> <<>>,
     retExpr |-> JSNull]

\* What a caller may pass as t: nothing, or a type to construct.
Override == VRef("Override")
TArgs == {VUndefined, Override}

Init ==
    /\ meta \in MetaSet
    /\ pc = "init"
    /\ result = NoResult
    /\ memo = VUndeclared
    /\ inherited = 0
    /\ invocations = 0
    /\ lastT = VUndefined
    /\ lastRet = NoOutcome
    /\ calls = 0
    /\ callPc = "idle"
    /\ callMeta = NoResult
    /\ frame = NoFrame
    /\ log = <<>>
    /\ decorator = NoDecorator
    /\ decPc = "init"
    /\ errorNode = NoResult

Compile ==
    /\ pc = "init"
    /\ result' = compileFactoryFunction(meta)
    /\ pc' = IF result' = Thrown THEN "failed" ELSE "compiled"
    /\ UNCHANGED <<meta, memo, inherited, invocations, lastT, lastRet>>
    /\ UNCHANGED callVars
    /\ UNCHANGED decVars

\* Evaluating the emitted expression yields the factory; the closure, when
\* there is one, declares its variable (undefined until assigned).
Load ==
    /\ pc = "compiled"
    /\ pc' = "loaded"
    /\ memo' = IF IsIIFE(result.expression) THEN VUndefined ELSE VUndeclared
    /\ UNCHANGED <<meta, result, inherited, invocations, lastT, lastRet>>
    /\ UNCHANGED callVars
    /\ UNCHANGED decVars

Invoke(t) ==
    /\ pc = "loaded"
    /\ invocations < MaxInvocations
    /\ LET out == CallFactory(result.expression, t, memo, inherited)
       IN  /\ memo' = IF IsIIFE(result.expression)
                      THEN out.env[CHOOSE x \in ClosureVarsOf(result.expression) : TRUE]
                      ELSE memo
           /\ inherited' = out.inherited
           /\ lastRet' = [val |-> out.val, thrown |-> out.thrown,
                          thrownArg |-> out.thrownArg]
    /\ invocations' = invocations + 1
    /\ lastT' = t
    /\ UNCHANGED <<meta, pc, result>>
    /\ UNCHANGED callVars
    /\ UNCHANGED decVars

Next ==
    \/ Compile
    \/ Load
    \/ \E t \in TArgs : Invoke(t)

Spec == Init /\ [][Next]_vars

----------------------------------------------------------------------------
(* compileFactoryFunction called again and again, statement by statement.  *)
(* The locals of one call are left as they are when it returns; the next   *)
(* call sees them until its own declarations run.                          *)

\* The metadata the calls are made on.
CallMetas ==
    {Meta(d, "Directive", "undefined", DepsUndefined, e) :
        d \in {DepsNull, DepsInvalid, DepsList(<<PlainDep, InvalidDep>>)},
        e \in ExpressionChoices}
    \cup
    {Meta(d, "Directive", "Class", DepsList(<<PlainDep>>), UNDEFINED) :
        d \in {DepsNull, DepsInvalid, DepsList(<<PlainDep, InvalidDep>>)}}
    \cup
    {Meta(d, "Directive", "Function", DepsList(<<>>), WrappedNodeExpr("expr")) :
        d \in {DepsNull, DepsInvalid, DepsList(<<PlainDep, InvalidDep>>)}}

InitCalls ==
    /\ meta = Meta(DepsNull, "Directive", "undefined", DepsUndefined, UNDEFINED)
    /\ pc = "init"
    /\ result = NoResult
    /\ memo = VUndeclared
    /\ inherited = 0
    /\ invocations = 0
    /\ lastT = VUndefined
    /\ lastRet = NoOutcome
    /\ calls = 0
    /\ callPc = "idle"
    /\ callMeta = NoResult
    /\ frame = NoFrame
    /\ log = <<>>
    /\ decorator = NoDecorator
    /\ decPc = "init"
    /\ errorNode = NoResult

\* Enter that leaves baseFactoryVar as the previous call left it (the
\* variable declared outside the function).
Enter_KeepsBaseFactoryVar(m) ==
    /\ callPc = "idle"
    /\ calls < MaxCalls
    /\ calls' = calls + 1
    /\ callMeta' = m
    /\ frame' = frame
    /\ callPc' = "ctor"
    /\ UNCHANGED <<meta, pc, result, memo, inherited, invocations, lastT,
                   lastRet, log>>
    /\ UNCHANGED decVars

\* Lines 120-124: the call is entered and baseFactoryVar declared as null.
Enter(m) ==
    /\ callPc = "idle"
    /\ calls < MaxCalls
    /\ calls' = calls + 1
    /\ callMeta' = m
    /\ frame' = [frame EXCEPT !.baseFactoryVar = JSNull]
    /\ callPc' = "ctor"
    /\ UNCHANGED <<meta, pc, result, memo, inherited, invocations, lastT,
                   lastRet, log>>
    /\ UNCHANGED decVars

\* Lines 131-152: ctorExpr declared as null and then assigned;
\* baseFactoryVar assigned only in the branch deps = null.
CtorStep ==
    /\ callPc = "ctor"
    /\ LET c == constructorStep(callMeta)
       IN  frame' = [frame EXCEPT
                        !.ctorExpr = c.ctorExpr,
                        !.baseFactoryVar =
                            IF callMeta.deps.tag = "null"
                            THEN c.baseFactoryVar ELSE @]
    /\ callPc' = "variant"
    /\ UNCHANGED <<meta, pc, result, memo, inherited, invocations, lastT,
                   lastRet, calls, callMeta, log>>
    /\ UNCHANGED decVars

\* Lines 154-186: body declared as [] and retExpr as null, then the
\* variant's statements pushed and retExpr assigned.
VariantStep ==
    /\ callPc = "variant"
    /\ LET v == variantStep(callMeta, frame.ctorExpr)
       IN  frame' = [frame EXCEPT !.body = <<>> \o v.body,
                                 !.retExpr = v.retExpr]
    /\ callPc' = "return"
    /\ UNCHANGED <<meta, pc, result, memo, inherited, invocations, lastT,
                   lastRet, calls, callMeta, log>>
    /\ UNCHANGED decVars

\* Lines 188-206: the last statement pushed on body.
ReturnStep ==
    /\ callPc = "return"
    /\ frame' = [frame EXCEPT
                     !.body = Append(@, returnStep(callMeta, frame.retExpr,
                                                   frame.baseFactoryVar))]
    /\ callPc' = "package"
    /\ UNCHANGED <<meta, pc, result, memo, inherited, invocations, lastT,
                   lastRet, calls, callMeta, log>>
    /\ UNCHANGED decVars

\* Lines 208-234: the factory function packaged and the result returned.
Package ==
    /\ callPc = "package"
    /\ log' = Append(log,
                     [meta |-> callMeta,
                      out |-> [k |-> "R3CompiledExpression",
                               expression |->
                                   packageStep(callMeta, frame.body,
                                               frame.baseFactoryVar),
                               statements |-> <<>>,
                               type |-> createFactoryType(callMeta)]])
    /\ callPc' = "idle"
    /\ UNCHANGED <<meta, pc, result, memo, inherited, invocations, lastT,
                   lastRet, calls, callMeta, frame>>
    /\ UNCHANGED decVars

NextCalls ==
    \/ \E m \in CallMetas : Enter(m)
    \/ CtorStep
    \/ VariantStep
    \/ ReturnStep
    \/ Package

SpecCalls == InitCalls /\ [][NextCalls]_vars

----------------------------------------------------------------------------
(* Decorator.nodeForError (reflection/src/host.ts).                        *)

\* The value of a property an object does not have.
JSUndefined == [k |-> "JSUndefined"]

TsNode(id) == [k |-> "TsNode", id |-> id]

TsNodes == {TsNode("decoratorNode"), TsNode("classNode")}

DecoratorIdentifiers == {[k |-> "Identifier", text |-> "Injectable"]}

Imports == {[k |-> "Import", from |-> "@angular/core", name |-> "Injectable"]}

\* args: ts.Expression[] | null.
DecoratorArgs ==
    {[tag |-> "null", list |-> <<>>],
     [tag |-> "list", list |-> <<>>],
     [tag |-> "list", list |-> <<WrappedNodeExpr("arg")>>]}

\* Every object that can reach nodeForError at run time, where the
\* interfaces are not enforced: the Concrete and Synthetic decorators of
\* lines 56-73 and the objects that are neither.
Decorators ==
    [name : {"Injectable"},
     identifier : DecoratorIdentifiers \cup {JSNull},
     import : Imports \cup {JSNull},
     node : TsNodes \cup {JSNull},
     args : DecoratorArgs,
     synthesizedFor : TsNodes \cup {JSNull, JSUndefined}]

\* Lines 56-59: a ConcreteDecorator has an identifier and a node (and no
\* synthesizedFor property).
IsConcreteDecorator(d) ==
    /\ d.identifier # JSNull
    /\ d.node # JSNull
    /\ d.synthesizedFor = JSUndefined

\* Lines 65-73: a SyntheticDecorator has neither, and the node it was
\* synthesized for.
IsSyntheticDecorator(d) ==
    /\ d.identifier = JSNull
    /\ d.node = JSNull
    /\ d.synthesizedFor \in TsNodes

\* nodeForError that reads the decorator's own node in both cases.
nodeForError_AlwaysOwnNode(d) == d.node

\* Lines 76-83.
nodeForError(d) ==
    IF d.node # JSNull
    THEN d.node
    ELSE d.synthesizedFor

InitDecorator ==
    /\ meta = Meta(DepsNull, "Directive", "undefined", DepsUndefined, UNDEFINED)
    /\ pc = "init"
    /\ result = NoResult
    /\ memo = VUndeclared
    /\ inherited = 0
    /\ invocations = 0
    /\ lastT = VUndefined
    /\ lastRet = NoOutcome
    /\ calls = 0
    /\ callPc = "idle"
    /\ callMeta = NoResult
    /\ frame = NoFrame
    /\ log = <<>>
    /\ decorator \in Decorators
    /\ decPc = "init"
    /\ errorNode = NoResult

NodeForError ==
    /\ decPc = "init"
    /\ errorNode' = nodeForError(decorator)
    /\ decPc' = "done"
    /\ UNCHANGED <<meta, pc, result, memo, inherited, invocations, lastT,
                   lastRet, decorator>>
    /\ UNCHANGED callVars

NextDecorator == NodeForError

SpecDecorator == InitDecorator /\ [][NextDecorator]_vars

----------------------------------------------------------------------------
(* Reading the synthesized output.                                         *)

RECURSIVE Nodes(_)

\* Every node of an output tree: the node itself and the nodes below it.
Nodes(n) ==
    LET Below(seq) == UNION {Nodes(seq[i]) : i \in 1..Len(seq)}
    IN  {n} \cup
        CASE n.k = "WriteVar" -> Nodes(n.value)
          [] n.k = "Or" -> Nodes(n.lhs) \cup Nodes(n.rhs)
          [] n.k \in {"New", "Call"} -> Nodes(n.fn) \cup Below(n.args)
          [] n.k = "Fn" -> Below(n.body)
          [] n.k = "DeclVar" -> IF n.hasValue THEN Nodes(n.value) ELSE {}
          [] n.k = "If" ->
                Nodes(n.cond) \cup Below(n.thenCase) \cup Below(n.elseCase)
          [] n.k \in {"ExprStmt", "Return"} -> Nodes(n.expr)
          [] OTHER -> {}

IsCallOf(n, ref) == n.k = "Call" /\ n.fn = importExpr(ref)

IsInjectCall(n) == IsCallOf(n, R3_inject) \/ IsCallOf(n, R3_directiveInject)

Compiled == pc \in {"compiled", "loaded"}

ConstructorOnly(m) ==
    ~isDelegatedFactoryMetadata(m) /\ ~isExpressionFactoryMetadata(m)

TVar == variable("t")
MemoVar == variable(BaseFactoryName(meta.name))

\* The direct instantiations in expression e synthesized for metadata m:
\* new (t)(...) and new (t || internalType)(...).
DirectInstantiationsIn(e, m) ==
    {n \in Nodes(e) :
        /\ n.k = "New"
        /\ n.fn \in {TVar, BinaryOperatorExpr("Or", TVar, m.internalType)}}

DirectInstantiations == DirectInstantiationsIn(result.expression, meta)

\* The delegate calls in e: new delegate(...) and delegate(...).
DelegateCallsIn(e, m) ==
    {n \in Nodes(e) : n.k \in {"New", "Call"} /\ n.fn = m.delegate}

DelegateCalls == DelegateCallsIn(result.expression, meta)

\* The calls through the base factory memo: memo(...) and
\* (memo || (memo = ...))(...).
MemoCalls ==
    {n \in Nodes(result.expression) :
        /\ n.k = "Call"
        /\ \/ n.fn = MemoVar
           \/ n.fn.k = "Or" /\ n.fn.lhs = MemoVar}

HasFlags(dep) == dep.self \/ dep.skipSelf \/ dep.optional

----------------------------------------------------------------------------
(* Claims.                                                                 *)

\* C1: compileFactoryFunction raises no error on any metadata (any variant,
\* deps a list, 'invalid' or null, any tokens, flags and target) and returns
\* a result that carries a factory expression and a declared type.
C1_CompileTotal ==
    pc # "init" =>
        /\ pc # "failed"
        /\ result # Thrown
        /\ result.k = "R3CompiledExpression"
        /\ {"expression", "type"} \subseteq DOMAIN result
        /\ result.expression.k \in {"Fn", "Call"}
        /\ result.type.k = "ExpressionType"

\* C1 witness: synthesis has completed for a Delegated metadata whose deps
\* are 'invalid' and whose delegate has an unresolvable dependency.
C1_Witness ==
    /\ pc = "compiled"
    /\ isDelegatedFactoryMetadata(meta)
    /\ meta.deps.tag = "invalid"
    /\ meta.delegateDeps.list = <<InvalidDep>>
    /\ result.expression.k = "Fn"

\* The variables in scope when the factory body starts: t, and the memo
\* when the closure declares it.
InvocationEnv(t, memoVal) ==
    [x \in VarNames |->
        IF x = "t" THEN t
        ELSE IF x = BaseFactoryName(meta.name) THEN memoVal
        ELSE VUndeclared]

\* The outcome (value or exception) of evaluating expression e at the start
\* of an invocation.
ValueOf(e, t, memoVal) ==
    LET s == Eval(e, EvalState(InvocationEnv(t, memoVal), 0))
    IN  [val |-> IF s.thrown = "" THEN s.val ELSE VUndefined,
         thrown |-> s.thrown, thrownArg |-> s.thrownArg]

TheDelegateCall == CHOOSE n \in DelegateCalls : TRUE

\* C2 (as stated): for Delegated metadata whose deps is a list or null, every
\* invocation of the generated factory yields the value of the
\* direct-constructor expression when t is supplied, and the value of the
\* delegate call (new delegate(...) for Class, delegate(...) for Function)
\* when t is not supplied.
C2_DelegatedSelectsByOverride ==
    [][(/\ pc = "loaded"
        /\ invocations' = invocations + 1
        /\ isDelegatedFactoryMetadata(meta)
        /\ meta.deps.tag \in {"list", "null"})
       => /\ TheDelegateCall.k =
                (IF meta.delegateType = "Class" THEN "New" ELSE "Call")
          /\ lastRet' =
                IF Truthy(lastT')
                THEN ValueOf(constructorStep(meta).ctorExpr, lastT', memo)
                ELSE ValueOf(TheDelegateCall, lastT', memo)]_vars

\* The part of C2 the code meets: when deps is a list.
C2_DelegatedListSelectsByOverride ==
    [][(/\ pc = "loaded"
        /\ invocations' = invocations + 1
        /\ isDelegatedFactoryMetadata(meta)
        /\ meta.deps.tag = "list")
       => /\ TheDelegateCall.k =
                (IF meta.delegateType = "Class" THEN "New" ELSE "Call")
          /\ lastRet' =
                IF Truthy(lastT')
                THEN ValueOf(constructorStep(meta).ctorExpr, lastT', memo)
                ELSE ValueOf(TheDelegateCall, lastT', memo)]_vars

BaseFactoryValue ==
    VApp(VRuntime(R3_getInheritedFactory), <<VRef(meta.internalType.name)>>)

\* C3: for Constructor-only metadata with deps = null, over any sequence of
\* invocations (with or without t) getInheritedFactory(internalType) runs
\* exactly once, on the first invocation; its result stays in the memo; and
\* every invocation returns the memoised base factory applied to the type to
\* construct (t if supplied, else internalType).
C3_BaseFactoryResolvedOnce ==
    (pc = "loaded" /\ ConstructorOnly(meta) /\ meta.deps.tag = "null") =>
        /\ inherited = (IF invocations = 0 THEN 0 ELSE 1)
        /\ memo = (IF invocations = 0 THEN VUndefined ELSE BaseFactoryValue)
        /\ invocations > 0 =>
              lastRet = [val |-> VApp(BaseFactoryValue,
                                      <<IF Truthy(lastT) THEN lastT
                                        ELSE VRef(meta.internalType.name)>>),
                         thrown |-> "", thrownArg |-> 0]

\* C3 witness: a second invocation, with an override, of the factory of a
\* class that inherits its constructor.
C3_Witness ==
    /\ pc = "loaded"
    /\ ConstructorOnly(meta)
    /\ meta.deps.tag = "null"
    /\ invocations = 2
    /\ lastT = Override
    /\ inherited = 1

\* C4: for metadata with deps = 'invalid' that is neither Delegated nor
\* Expression, the factory is a plain function whose body is the single
\* statement invalidFactory(): no instantiation, no injection call, no
\* conditional, no return, no memo and no enclosing closure.
C4_InvalidDepsOnlyStub ==
    (pc = "compiled" /\ ConstructorOnly(meta) /\ meta.deps.tag = "invalid") =>
        LET e == result.expression
        IN  /\ e.k = "Fn"
            /\ Len(e.body) = 1
            /\ e.body[1].k = "ExprStmt"
            /\ IsCallOf(e.body[1].expr, R3_invalidFactory)
            /\ e.body[1].expr.args = <<>>
            /\ \A n \in Nodes(e) :
                  /\ n.k \notin {"New", "If", "Return", "DeclVar", "WriteVar"}
                  /\ ~IsInjectCall(n)
                  /\ n.k = "Fn" => n = e
                  /\ n # MemoVar

\* C4 witness: synthesis has completed for such a metadata.
C4_Witness ==
    /\ pc = "compiled"
    /\ ConstructorOnly(meta)
    /\ meta.deps.tag = "invalid"
    /\ result.expression.k = "Fn"

\* The argument lists synthesized for metadata m, each with the dependency
\* list it was compiled from: the direct instantiation's (when deps is a
\* list) and the delegate call's (when m is Delegated).
ArgLists(e, m) ==
    {[deps |-> m.deps.list, args |-> n.args, of |-> "deps"] :
        n \in IF m.deps.tag = "list" THEN DirectInstantiationsIn(e, m) ELSE {}}
    \cup
    {[deps |-> m.delegateDeps.list, args |-> n.args, of |-> "delegateDeps"] :
        n \in IF isDelegatedFactoryMetadata(m) THEN DelegateCallsIn(e, m)
              ELSE {}}

\* m with position i of the named dependency list replaced by d.
WithDep(m, of, i, d) ==
    IF of = "deps" THEN [m EXCEPT !.deps.list[i] = d]
    ELSE [m EXCEPT !.delegateDeps.list[i] = d]

\* The arguments compiled for the named list of metadata m.
ArgsFor(m, of) ==
    LET ls == {l \in ArgLists(compileFactoryFunction(m).expression, m) :
                  l.of = of}
    IN  (CHOOSE l \in ls : TRUE).args

ValidDeps == {d \in R3DependencyMetadata : d.token # JSNull}

\* C5: in every dependency list (deps or delegateDeps), a dependency with
\* token = null at position i compiles to invalidFactoryDep(i), i its only
\* argument, whatever its flags, the target and the other dependencies; and
\* the arguments at the other positions are what they are with a valid
\* dependency at position i.
C5_NullTokenStubCarriesIndex ==
    pc = "compiled" =>
        \A l \in ArgLists(result.expression, meta) :
            /\ Len(l.args) = Len(l.deps)
            /\ \A i \in 1..Len(l.deps) :
                  l.deps[i].token = JSNull =>
                      /\ IsCallOf(l.args[i], R3_invalidFactoryDep)
                      /\ l.args[i].args = <<literal(i - 1)>>
                      /\ \A d \in ValidDeps :
                            LET other == ArgsFor(WithDep(meta, l.of, i, d), l.of)
                            IN  /\ Len(other) = Len(l.args)
                                /\ \A j \in 1..Len(l.args) :
                                      j # i => other[j] = l.args[j]

\* C5 witness: a dependency with a null token, an attribute type and
\* qualifiers, at the second position of a constructor's dependency list.
C5_Witness ==
    /\ pc = "compiled"
    /\ meta.deps.tag = "list"
    /\ Len(meta.deps.list) = 2
    /\ meta.deps.list[2].token = JSNull
    /\ meta.deps.list[2].attributeNameType # JSNull
    /\ meta.deps.list[2].self
    /\ \E n \in DirectInstantiations :
          n.args[2] = callFn(importExpr(R3_invalidFactoryDep), <<literal(1)>>)

\* C6 (as stated): every dependency with a non-null token compiles to an
\* injection call that carries a bitmask argument exactly when self, skipSelf
\* or optional is true, and has the token as its only argument when all
\* three are false.
C6_BitmaskIffQualified ==
    pc = "compiled" =>
        \A l \in ArgLists(result.expression, meta) :
            \A i \in 1..Len(l.deps) :
                l.deps[i].token # JSNull =>
                    /\ IsInjectCall(l.args[i])
                    /\ Len(l.args[i].args) \in {1, 2}
                    /\ l.args[i].args[1] = l.deps[i].token
                    /\ Len(l.args[i].args) = 2 <=> HasFlags(l.deps[i])

\* What the code does meet: the same for the dependencies that have no
\* attributeNameType, the only ones lines 267-290 compile.
C6_BitmaskIffQualifiedNoAttribute ==
    pc = "compiled" =>
        \A l \in ArgLists(result.expression, meta) :
            \A i \in 1..Len(l.deps) :
                (l.deps[i].token # JSNull
                 /\ l.deps[i].attributeNameType = JSNull) =>
                    /\ IsInjectCall(l.args[i])
                    /\ Len(l.args[i].args) \in {1, 2}
                    /\ l.args[i].args[1] = l.deps[i].token
                    /\ Len(l.args[i].args) = 2 <=> HasFlags(l.deps[i])

\* The qualifiers of a dependency.
Qualifiers(dep) == <<dep.self, dep.skipSelf, dep.optional>>

\* C7: an emitted bitmask is exactly the OR of the Self bit (2) if self, the
\* SkipSelf bit (4) if skipSelf and the Optional bit (8) if optional, with no
\* other bit (never Host, 1); self alone yields exactly the Self bit; and
\* dependencies that differ in their qualifiers compile to different calls.
C7_BitmaskIsOrOfQualifierBits ==
    pc = "compiled" =>
        \A l \in ArgLists(result.expression, meta) :
            \A i \in 1..Len(l.deps) :
                LET dep == l.deps[i]
                    arg == l.args[i]
                IN  /\ (IsInjectCall(arg) /\ Len(arg.args) = 2) =>
                          LET v == arg.args[2].value
                          IN  /\ arg.args[2].k = "Lit"
                              /\ BitAnd(v, InjectFlags_Self) =
                                    (IF dep.self THEN InjectFlags_Self ELSE 0)
                              /\ BitAnd(v, InjectFlags_SkipSelf) =
                                    (IF dep.skipSelf THEN InjectFlags_SkipSelf
                                     ELSE 0)
                              /\ BitAnd(v, InjectFlags_Optional) =
                                    (IF dep.optional THEN InjectFlags_Optional
                                     ELSE 0)
                              /\ BitAnd(v, InjectFlags_Host) = 0
                              /\ v = BitAnd(v, InjectFlags_Self)
                                     + BitAnd(v, InjectFlags_SkipSelf)
                                     + BitAnd(v, InjectFlags_Optional)
                              /\ Qualifiers(dep) = <<TRUE, FALSE, FALSE>> =>
                                    v = InjectFlags_Self
                    /\ IsInjectCall(arg) =>
                          \A d \in ValidDeps :
                              (/\ d.attributeNameType = JSNull
                               /\ d.token = dep.token
                               /\ Qualifiers(d) # Qualifiers(dep)) =>
                                  compileInjectDependency(d, meta.target, i - 1)
                                      # arg

\* C7 witness: [{token: T1, self: true}] for an Injectable compiled to
\* inject(T1, 2).
C7_Witness ==
    /\ pc = "compiled"
    /\ meta.target = "Injectable"
    /\ meta.deps = DepsList(<<Dep(WrappedNodeExpr("T1"), JSNull,
                                   FALSE, TRUE, FALSE)>>)
    /\ \E n \in DirectInstantiations :
          n.args = <<callFn(importExpr(R3_inject),
                            <<WrappedNodeExpr("T1"),
                              literal(InjectFlags_Self)>>)>>

\* The entry point the claims name for a target.
EntryPointFor(target) ==
    IF target \in {"Directive", "Component", "Pipe"} THEN R3_directiveInject
    ELSE R3_inject

\* C8 (as stated): every dependency with a non-null token is compiled to a
\* call of the directive-scoped injector when target is Directive, Component
\* or Pipe and of the generic injector when it is Injectable or NgModule, in
\* the constructor's and in the delegate's list alike.
C8_EntryPointByTarget ==
    pc = "compiled" =>
        \A l \in ArgLists(result.expression, meta) :
            \A i \in 1..Len(l.deps) :
                l.deps[i].token # JSNull =>
                    /\ l.args[i].k = "Call"
                    /\ l.args[i].fn = importExpr(EntryPointFor(meta.target))

\* What the code does meet: the same for the dependencies that have no
\* attributeNameType.
C8_EntryPointByTargetNoAttribute ==
    pc = "compiled" =>
        \A l \in ArgLists(result.expression, meta) :
            \A i \in 1..Len(l.deps) :
                (l.deps[i].token # JSNull
                 /\ l.deps[i].attributeNameType = JSNull) =>
                    /\ l.args[i].k = "Call"
                    /\ l.args[i].fn = importExpr(EntryPointFor(meta.target))

NoException(val) == [val |-> val, thrown |-> "", thrownArg |-> 0]

\* C9: for Constructor-only metadata with deps = [], the factory is a plain
\* function whose body is the single statement
\* return new (t || internalType)(): no injection call, no invalid-factory
\* stub, no conditional, no memo; invoked, it returns a new instance of the
\* type to construct.
C9_EmptyDepsDirectInstantiation ==
    (Compiled /\ ConstructorOnly(meta) /\ meta.deps = DepsList(<<>>)) =>
        LET e == result.expression
        IN  /\ e.k = "Fn"
            /\ Len(e.body) = 1
            /\ e.body[1].k = "Return"
            /\ e.body[1].expr.k = "New"
            /\ e.body[1].expr.args = <<>>
            /\ e.body[1].expr.fn =
                  BinaryOperatorExpr("Or", TVar, meta.internalType)
            /\ \A n \in Nodes(e) :
                  /\ n.k \notin {"If", "DeclVar", "WriteVar"}
                  /\ n.k # "Call"
                  /\ n.k = "Fn" => n = e
                  /\ n.k = "New" => n = e.body[1].expr
                  /\ n # MemoVar
            /\ invocations > 0 =>
                  lastRet = NoException(
                      VNew(IF Truthy(lastT) THEN lastT
                           ELSE VRef(meta.internalType.name), <<>>))

\* C9 witness: the factory of a class with a parameterless constructor,
\* invoked without t, has returned a new instance of the class.
C9_Witness ==
    /\ pc = "loaded"
    /\ ConstructorOnly(meta)
    /\ meta.deps = DepsList(<<>>)
    /\ invocations > 0
    /\ lastT = VUndefined
    /\ lastRet = NoException(VNew(VRef(meta.internalType.name), <<>>))

\* The type-to-construct expression the claims name for metadata m.
ExpectedTypeForCtor(m) ==
    IF isDelegatedFactoryMetadata(m) THEN TVar
    ELSE BinaryOperatorExpr("Or", TVar, m.internalType)

\* C10: the type to construct used by the direct-constructor expression (the
\* instantiation when deps is a list, the base factory call when deps is
\* null) is t || internalType for the Constructor and Expression variants
\* and t alone for the Delegated variant; at run time the type constructed
\* is t when supplied and otherwise internalType, and for Delegated never
\* internalType.
C10_TypeToConstruct ==
    Compiled =>
        LET e == result.expression
            news == {n \in Nodes(e) : n.k = "New" /\ n.fn # meta.delegate}
        IN  /\ \A n \in news : n.fn = ExpectedTypeForCtor(meta)
            /\ \A n \in MemoCalls : n.args = <<ExpectedTypeForCtor(meta)>>
            /\ meta.deps.tag = "list" => news # {}
            /\ meta.deps.tag = "null" => MemoCalls # {}
            /\ (/\ invocations > 0
                /\ lastRet.thrown = ""
                /\ lastRet.val.v \in {"new", "app"}
                /\ lastRet.val.args[1] # VRef("delegate")) =>
                  LET constructed ==
                          IF lastRet.val.v = "new" THEN lastRet.val.args[1]
                          ELSE lastRet.val.args[2]
                  IN  /\ constructed =
                            (IF isDelegatedFactoryMetadata(meta) THEN lastT
                             ELSE IF Truthy(lastT) THEN lastT
                             ELSE VRef(meta.internalType.name))
                      /\ isDelegatedFactoryMetadata(meta) =>
                            constructed # VRef(meta.internalType.name)

\* C10 witness: the factory of a Delegated metadata with a constructor
\* dependency, invoked with an override, has instantiated the override.
C10_Witness ==
    /\ pc = "loaded"
    /\ isDelegatedFactoryMetadata(meta)
    /\ meta.deps = DepsList(<<PlainDep>>)
    /\ invocations > 0
    /\ lastT = Override
    /\ lastRet.thrown = ""
    /\ lastRet.val.v = "new"
    /\ lastRet.val.args[1] = Override

\* The declarations of the memo variable anywhere inside node n.
MemoDeclsIn(n) ==
    {d \in Nodes(n) : d.k = "DeclVar" /\ d.name = BaseFactoryName(meta.name)}

\* C11: the result is wrapped in an immediately-invoked closure exactly when
\* deps = null, in every variant; when deps is a list or 'invalid' the result
\* is the bare factory function; and in the wrapped case the closure holds
\* only the declaration of the memo variable followed by the return of the
\* factory function, whose body never declares the memo.
C11_ClosureIffDepsNull ==
    pc = "compiled" =>
        LET e == result.expression
        IN  /\ IsIIFE(e) <=> meta.deps.tag = "null"
            /\ meta.deps.tag # "null" =>
                   /\ e.k = "Fn"
                   /\ e.params = <<"t">>
                   /\ MemoDeclsIn(e) = {}
            /\ meta.deps.tag = "null" =>
                   /\ e.args = <<>>
                   /\ e.fn.params = <<>>
                   /\ Len(e.fn.body) = 2
                   /\ e.fn.body[1] = DeclareVarStmt(BaseFactoryName(meta.name))
                   /\ e.fn.body[2].k = "Return"
                   /\ e.fn.body[2].expr.k = "Fn"
                   /\ e.fn.body[2].expr.params = <<"t">>
                   /\ MemoDeclsIn(e.fn.body[2].expr) = {}

C11_Witness ==
    /\ pc = "compiled"
    /\ isDelegatedFactoryMetadata(meta)
    /\ meta.deps.tag = "null"
    /\ IsIIFE(result.expression)
    /\ ClosureVarsOf(result.expression) = {BaseFactoryName(meta.name)}

\* Expression metadata: an expression and no delegate (lines 170-186).
ExpressionOnly(m) ==
    ~isDelegatedFactoryMetadata(m) /\ isExpressionFactoryMetadata(m)

\* C12 (as stated): for Expression metadata whose deps is a list or null,
\* every invocation of the generated factory yields the value of the
\* direct-constructor expression when t is supplied, and the value of the
\* metadata's literal expression when t is not supplied.
C12_ExpressionSelectsByOverride ==
    [][(/\ pc = "loaded"
        /\ invocations' = invocations + 1
        /\ ExpressionOnly(meta)
        /\ meta.deps.tag \in {"list", "null"})
       => lastRet' =
              IF Truthy(lastT')
              THEN ValueOf(constructorStep(meta).ctorExpr, lastT', memo)
              ELSE ValueOf(meta.expression, lastT', memo)]_vars

\* The part of C12 the code meets: when deps is a list.
C12_ExpressionListSelectsByOverride ==
    [][(/\ pc = "loaded"
        /\ invocations' = invocations + 1
        /\ ExpressionOnly(meta)
        /\ meta.deps.tag = "list")
       => lastRet' =
              IF Truthy(lastT')
              THEN ValueOf(constructorStep(meta).ctorExpr, lastT', memo)
              ELSE ValueOf(meta.expression, lastT', memo)]_vars

\* The second type parameter of the declared factory type: the constructor
\* dependency type.
CtorDepsTypeOf(r) == r.type.value.typeParams[2]

QualifierNames == {"optional", "self", "skipSelf"}

QualifierNamesOf(dep) == {q \in QualifierNames : dep[q]}

\* Entry x of the dependency-type array mirrors the qualifiers of dep: the
\* null placeholder when none is set, otherwise a record of the set ones,
\* each mapped to true.
MirrorsQualifiers(x, dep) ==
    IF QualifierNamesOf(dep) = {}
    THEN x = LITERAL_NULL
    ELSE /\ x.k = "LiteralMap"
         /\ {x.entries[j].key : j \in 1..Len(x.entries)} = QualifierNamesOf(dep)
         /\ Len(x.entries) = Cardinality(QualifierNamesOf(dep))
         /\ \A j \in 1..Len(x.entries) : x.entries[j].value = LITERAL_TRUE

IsCtorDepsArrayFor(ty, deps) ==
    /\ ty.k = "ExpressionType"
    /\ ty.value.k = "LiteralArr"
    /\ Len(ty.value.entries) = Len(deps)
    /\ \A i \in 1..Len(deps) : MirrorsQualifiers(ty.value.entries[i], deps[i])

\* C13 (as stated): for every metadata whose deps is a list, the declared
\* factory type carries a dependency-type array with one entry per
\* dependency, in order: the null placeholder for a dependency with no
\* qualifier, otherwise a record whose keys are exactly its true qualifiers.
C13_DepsTypeArrayForEveryList ==
    (pc = "compiled" /\ meta.deps.tag = "list") =>
        IsCtorDepsArrayFor(CtorDepsTypeOf(result), meta.deps.list)

\* C13 (amended): the array is carried when at least one dependency of the
\* list has a qualifier; when none has (the empty list included) the declared
\* type carries the none type in its place, as it does when deps is not a
\* list.
C13_DepsTypeArrayWhenQualified ==
    pc = "compiled" =>
        LET ty == CtorDepsTypeOf(result)
            qualified ==
                /\ meta.deps.tag = "list"
                /\ \E i \in 1..Len(meta.deps.list) : HasFlags(meta.deps.list[i])
        IN  /\ result.type.value.ref = R3_FactoryDeclaration
            /\ qualified => IsCtorDepsArrayFor(ty, meta.deps.list)
            /\ ~qualified => ty = NONE_TYPE

C13_Witness ==
    /\ pc = "compiled"
    /\ meta.deps.tag = "list"
    /\ Len(meta.deps.list) = 2
    /\ ~HasFlags(meta.deps.list[1])
    /\ meta.deps.list[2].optional /\ meta.deps.list[2].skipSelf
    /\ ~meta.deps.list[2].self
    /\ CtorDepsTypeOf(result).value.entries[1] = LITERAL_NULL
    /\ Len(CtorDepsTypeOf(result).value.entries[2].entries) = 2

\* Argument a is the call compiled from dep at 0-based position index.
WellFormedArg(a, dep, index) ==
    IF dep.token = JSNull
    THEN IsCallOf(a, R3_invalidFactoryDep) /\ a.args = <<literal(index)>>
    ELSE IsInjectCall(a) /\ Len(a.args) \in {1, 2} /\ a.args[1] = dep.token

\* C14 (as stated): for every metadata whose deps is a list, the direct
\* instantiation of the type to construct has exactly one argument per
\* dependency, in order, each a well-formed call compiled from deps[i] (an
\* injection call for a non-null token, the invalid-factory-dependency stub
\* for a null one), a dependency with an attributeNameType included.
C14_OneCallPerDependency ==
    (pc = "compiled" /\ meta.deps.tag = "list") =>
        /\ Cardinality(DirectInstantiations) = 1
        /\ \A n \in DirectInstantiations :
              /\ Len(n.args) = Len(meta.deps.list)
              /\ \A i \in 1..Len(n.args) :
                    WellFormedArg(n.args[i], meta.deps.list[i], i - 1)

\* What the code does meet: one argument per dependency, in order, a call
\* for every dependency with a null token or no attributeNameType, and no
\* expression at all (undefined) for the others.
C14_OneCallPerDependencyNoAttribute ==
    (pc = "compiled" /\ meta.deps.tag = "list") =>
        /\ Cardinality(DirectInstantiations) = 1
        /\ \A n \in DirectInstantiations :
              /\ Len(n.args) = Len(meta.deps.list)
              /\ \A i \in 1..Len(n.args) :
                    LET dep == meta.deps.list[i]
                    IN  IF dep.token = JSNull \/ dep.attributeNameType = JSNull
                        THEN WellFormedArg(n.args[i], dep, i - 1)
                        ELSE n.args[i] = UNDEFINED

\* C15 (as stated): in the code generated for metadata with deps = null, in
\* any variant, no invocation (with or without t, first or later) calls the
\* base-factory memo while it is unassigned: no invocation ends in the
\* TypeError of calling undefined.
C15_MemoNeverCalledUnassigned ==
    (pc = "loaded" /\ meta.deps.tag = "null" /\ invocations > 0) =>
        lastRet.thrown # "TypeError"

\* What the code does meet: the memo is called unassigned only by the
\* override branch of a Delegated or Expression factory, on an invocation
\* with t before any invocation has assigned the memo; a Constructor-only
\* factory never does it.
C15_UnassignedCallOnlyInOverrideBranch ==
    [][(/\ pc = "loaded"
        /\ invocations' = invocations + 1
        /\ meta.deps.tag = "null"
        /\ lastRet'.thrown = "TypeError")
       => /\ ~ConstructorOnly(meta)
          /\ Truthy(lastT')
          /\ memo = VUndefined
          /\ memo' = VUndefined]_vars

\* C16: for metadata with deps = 'invalid', in every variant, the output
\* never falls back to inheritance: it holds no getInheritedFactory call, no
\* reference to, assignment of or declaration of the base-factory memo, and
\* no enclosing closure; and no invocation of the factory resolves a base
\* factory.
C16_InvalidNeverInherits ==
    (Compiled /\ meta.deps.tag = "invalid") =>
        LET e == result.expression
        IN  /\ ~IsIIFE(e)
            /\ e.k = "Fn"
            /\ ClosureVarsOf(e) = {}
            /\ MemoCalls = {}
            /\ \A n \in Nodes(e) :
                  /\ ~IsCallOf(n, R3_getInheritedFactory)
                  /\ n # importExpr(R3_getInheritedFactory)
                  /\ n # MemoVar
                  /\ n.k \in {"WriteVar", "DeclVar"} =>
                         n.name # BaseFactoryName(meta.name)
                  /\ n.k = "Fn" => n = e
            /\ inherited = 0
            /\ memo = VUndeclared

\* C16 witness: a Delegated factory for deps = 'invalid' has been invoked.
C16_Witness ==
    /\ pc = "loaded"
    /\ meta.deps.tag = "invalid"
    /\ isDelegatedFactoryMetadata(meta)
    /\ invocations = MaxInvocations
    /\ inherited = 0

\* The expression of the branch taken without t: the delegate call of a
\* Delegated metadata, the literal expression of an Expression one.
NonCtorExpr ==
    IF isDelegatedFactoryMetadata(meta) THEN TheDelegateCall
    ELSE meta.expression

InvalidFactoryStub == toStmt(callFn(importExpr(R3_invalidFactory), <<>>))

\* C17: for Delegated or Expression metadata with deps = 'invalid' the factory
\* holds no instantiation of the type to construct; its override branch is
\* the invalidFactory() stub, so that an invocation with t raises the stub's
\* error; and its other branch stores the delegate call or the literal
\* expression, whose value an invocation without t returns.
C17_InvalidDepsStubInOverrideBranch ==
    (Compiled /\ ~ConstructorOnly(meta) /\ meta.deps.tag = "invalid") =>
        LET e == result.expression
            ifs == {n \in Nodes(e) : n.k = "If"}
        IN  /\ DirectInstantiations = {}
            /\ \A n \in Nodes(e) : n.k = "New" => n = TheDelegateCall
            /\ e.k = "Fn"
            /\ Len(e.body) = 3
            /\ e.body[2] = ifStmt(TVar, <<InvalidFactoryStub>>,
                                  <<toStmt(set(variable("r"), NonCtorExpr))>>)
            /\ ifs = {e.body[2]}
            /\ e.body[3] = ReturnStatement(variable("r"))
            /\ (pc = "loaded" /\ invocations > 0) =>
                   IF Truthy(lastT)
                   THEN /\ lastRet.thrown = R3_invalidFactory
                        /\ lastRet.val = VUndefined
                   ELSE lastRet = ValueOf(NonCtorExpr, lastT, memo)

\* C17 witness: such a factory has been invoked without t and has returned
\* the delegate instance.
C17_Witness ==
    /\ pc = "loaded"
    /\ meta.deps.tag = "invalid"
    /\ meta.delegateType = "Class"
    /\ invocations > 0
    /\ ~Truthy(lastT)
    /\ lastRet.thrown = ""
    /\ lastRet.val.v = "new"

\* A second witness: invoked with t, the stub has raised.
C17_WitnessOverride ==
    /\ pc = "loaded"
    /\ meta.deps.tag = "invalid"
    /\ ExpressionOnly(meta)
    /\ invocations > 0
    /\ Truthy(lastT)
    /\ lastRet.thrown = R3_invalidFactory

\* Values of deps and of delegateDeps against which a synthesis is compared.
DepsReferences == {DepsNull, DepsInvalid, DepsList(<<InvalidDep>>)}

DelegateDepsReferences == {DepsList(<<>>), DepsList(<<InvalidDep>>)}

TypeForCtorUses ==
    {n.fn : n \in DirectInstantiations} \cup {n.args[1] : n \in MemoCalls}

\* The expressions stored by the branch without t of the conditionals in
\* the output.
NonCtorBranches ==
    {n.elseCase : n \in {x \in Nodes(result.expression) : x.k = "If"}}

\* C19: one synthesis applies one variant throughout. The variant deciding
\* the type to construct is the one deciding the return expression: a
\* metadata with a delegateType is Delegated in both places, also when it
\* carries an expression (which is then ignored); one with only an expression
\* is Expression; one with neither is Constructor-only.
C19_OneVariantThroughout ==
    pc = "compiled" =>
        LET r == variable("r")
            tOrInternal == BinaryOperatorExpr("Or", TVar, meta.internalType)
        IN  /\ meta.delegateType # "undefined" =>
                  /\ TypeForCtorUses \subseteq {TVar}
                  /\ Cardinality(DelegateCalls) = 1
                  /\ NonCtorBranches = {<<toStmt(set(r, TheDelegateCall))>>}
                  /\ meta.expression # UNDEFINED =>
                         /\ meta.expression \notin Nodes(result.expression)
                         /\ result = compileFactoryFunction(
                                         [meta EXCEPT !.expression = UNDEFINED])
            /\ (meta.delegateType = "undefined"
                    /\ meta.expression # UNDEFINED) =>
                  /\ TypeForCtorUses \subseteq {tOrInternal}
                  /\ NonCtorBranches = {<<toStmt(set(r, meta.expression))>>}
            /\ (meta.delegateType = "undefined"
                    /\ meta.expression = UNDEFINED) =>
                  /\ TypeForCtorUses \subseteq {tOrInternal}
                  /\ NonCtorBranches = {}
            /\ meta.deps.tag \in {"list", "null"} => TypeForCtorUses # {}

\* C19 witness: a metadata carrying both a delegateType and an expression has
\* been synthesized as Delegated.
C19_Witness ==
    /\ pc = "compiled"
    /\ meta.delegateType = "Function"
    /\ meta.expression # UNDEFINED
    /\ meta.deps.tag = "list"
    /\ TypeForCtorUses = {TVar}
    /\ NonCtorBranches = {<<toStmt(set(variable("r"), TheDelegateCall))>>}

\* C20: compileFactoryFunction keeps no state between calls. In any sequence
\* of calls the result of each is that of a synthesis of its metadata alone,
\* so that two calls on equal metadata return equal expressions and types
\* whatever calls came in between; and the metadata object passed to a call
\* (its deps and delegateDeps included) is the same when the call returns.
C20_NoStateBetweenCalls ==
    /\ [](\A i \in 1..Len(log) :
             /\ log[i].out = compileFactoryFunction(log[i].meta)
             /\ \A j \in 1..Len(log) :
                   log[i].meta = log[j].meta => log[i].out = log[j].out)
    /\ [][callPc # "idle" => callMeta' = callMeta]_vars

\* C20 witness: a call, a call on other metadata with the opposite use of
\* the base factory, and the first call repeated with the same result.
C20_Witness ==
    /\ Len(log) = 3
    /\ callPc = "idle"
    /\ log[1].meta = log[3].meta
    /\ log[1].meta.deps.tag = "list"
    /\ log[2].meta.deps.tag = "null"
    /\ callMeta = log[3].meta
    /\ log[3].out = log[1].out
    /\ log[2].out # log[1].out

\* C21: for every Decorator that is Concrete (identifier and node set, no
\* synthesizedFor) or Synthetic (identifier and node null, synthesizedFor
\* set), nodeForError returns the decorator's own node when it is Concrete
\* and the synthesizedFor node when it is Synthetic, and so never null.
C21_NodeForErrorByVariant ==
    (decPc = "done"
        /\ (IsConcreteDecorator(decorator) \/ IsSyntheticDecorator(decorator)))
    => /\ IsConcreteDecorator(decorator) => errorNode = decorator.node
       /\ IsSyntheticDecorator(decorator) =>
              errorNode = decorator.synthesizedFor
       /\ errorNode \in TsNodes

\* C21 witness: nodeForError has returned the synthesizedFor node of a
\* Synthetic decorator.
C21_Witness ==
    /\ decPc = "done"
    /\ IsSyntheticDecorator(decorator)
    /\ errorNode = decorator.synthesizedFor
    /\ errorNode = TsNode("classNode")

\* A second witness: the own node of a Concrete decorator.
C21_WitnessConcrete ==
    /\ decPc = "done"
    /\ IsConcreteDecorator(decorator)
    /\ errorNode = decorator.node

====
